---- MODULE Spec2Model ----
(***************************************************************************)
(* Model of struct.c: struct_pack, struct_unpack and struct_calcsize, the  *)
(* format interpreter they share and the per-kind codecs.                  *)
(*                                                                         *)
(* A format string is a sequence of one-character strings; reading at the  *)
(* position after the last character yields NUL (the terminating '\0').    *)
(* size_t and ssize_t are 64-bit words (LP64), held as four 16-bit limbs,  *)
(* least significant limb first, so that the arithmetic wraps as in C.     *)
(* A scalar value is the tuple of its bytes, least significant byte first. *)
(* The byte buffer is a function from the indices 0..size-1 to bytes.      *)
(***************************************************************************)
EXTENDS Integers, Sequences, FiniteSets, TLC

VARIABLES
    host,       \* BYTE_ORDER of the build: "LE" or "BE"
    format,     \* the format string: a sequence of characters
    format_null,\* TRUE when the format argument of the call is NULL
    buffer_null,\* TRUE when the buffer argument of the call is NULL
    args,       \* the variadic arguments the caller passes to struct_pack
    op,         \* the function being executed, or "none"
    pc,         \* "idle", "loop", "done", "fault"
    buffer,     \* the caller's buffer: index -> byte
    size,       \* the size argument
    c,          \* cursor into format (1-based; Len+1 is the terminator)
    context,    \* struct_context
    p,          \* p - buffer, a 64-bit word
    vl,         \* number of variadic arguments consumed so far
    result,     \* struct_calcsize's accumulator
    outs,       \* the values struct_unpack stored, in argument order
    ret,        \* the value returned (a 64-bit word), "none" before return
    oob,        \* TRUE once a buffer byte outside [0, size) was accessed
    from_pack,  \* TRUE when the buffer of the call is what struct_pack produced
    log         \* one entry per field packed/unpacked: what the handler did

vars == <<host, format, format_null, buffer_null, args, op, pc, buffer, size,
          c, context, p, vl, result, outs, ret, oob, from_pack, log>>

NULL == "NULL"
NUL  == "NUL"

Byte == 0..255

-----------------------------------------------------------------------------
(* 64-bit words                                                            *)

LimbBase == 256 * 256
HalfLimb == 128 * 256

\* the word of a natural number below 2^31
SZ(n) == <<n % LimbBase, (n \div LimbBase) % LimbBase, 0, 0>>

sz_zero == <<0, 0, 0, 0>>

\* x + y modulo 2^64
sz_add(x, y) ==
    LET s1 == x[1] + y[1]
        s2 == x[2] + y[2] + (s1 \div LimbBase)
        s3 == x[3] + y[3] + (s2 \div LimbBase)
        s4 == x[4] + y[4] + (s3 \div LimbBase)
    IN  <<s1 % LimbBase, s2 % LimbBase, s3 % LimbBase, s4 % LimbBase>>

\* x * k modulo 2^64, for a small factor k
sz_mul(x, k) ==
    LET m1 == x[1] * k
        m2 == x[2] * k + (m1 \div LimbBase)
        m3 == x[3] * k + (m2 \div LimbBase)
        m4 == x[4] * k + (m3 \div LimbBase)
    IN  <<m1 % LimbBase, m2 % LimbBase, m3 % LimbBase, m4 % LimbBase>>

\* two's complement negation and subtraction modulo 2^64
sz_neg(x) ==
    sz_add(<<LimbBase - 1 - x[1], LimbBase - 1 - x[2],
             LimbBase - 1 - x[3], LimbBase - 1 - x[4]>>, SZ(1))

sz_sub(x, y) == sz_add(x, sz_neg(y))

\* the word read as ssize_t is negative
sz_negative(x) == x[4] >= HalfLimb

\* x <= y, both read as signed 64-bit integers: the capacity test written
\* with <= where the code has <
sz_sle(x, y) ==
    LET kx == <<x[1], x[2], x[3], (x[4] + HalfLimb) % LimbBase>>
        ky == <<y[1], y[2], y[3], (y[4] + HalfLimb) % LimbBase>>
    IN  \/ kx = ky
        \/ kx[4] < ky[4]
        \/ kx[4] = ky[4] /\ kx[3] < ky[3]
        \/ kx[4] = ky[4] /\ kx[3] = ky[3] /\ kx[2] < ky[2]
        \/ kx[4] = ky[4] /\ kx[3] = ky[3] /\ kx[2] = ky[2] /\ kx[1] < ky[1]

\* x < y, both read as signed 64-bit integers
sz_slt(x, y) ==
    LET kx == <<x[1], x[2], x[3], (x[4] + HalfLimb) % LimbBase>>
        ky == <<y[1], y[2], y[3], (y[4] + HalfLimb) % LimbBase>>
    IN  \/ kx[4] < ky[4]
        \/ kx[4] = ky[4] /\ kx[3] < ky[3]
        \/ kx[4] = ky[4] /\ kx[3] = ky[3] /\ kx[2] < ky[2]
        \/ kx[4] = ky[4] /\ kx[3] = ky[3] /\ kx[2] = ky[2] /\ kx[1] < ky[1]

\* the word is a natural number below 2^16
sz_fits(x) == x[2] = 0 /\ x[3] = 0 /\ x[4] = 0

\* the integer a signed word denotes when its magnitude is below 2^16;
\* any other word is mapped far away from every modelled buffer index
sz_int(x) ==
    IF sz_fits(x) THEN x[1]
    ELSE IF x[2] = LimbBase - 1 /\ x[3] = LimbBase - 1 /\ x[4] = LimbBase - 1
         THEN x[1] - LimbBase
    ELSE IF sz_negative(x) THEN 0 - 32 * LimbBase
    ELSE 32 * LimbBase

-----------------------------------------------------------------------------
(* characters                                                              *)

DigitChars == <<"0", "1", "2", "3", "4", "5", "6", "7", "8", "9">>

isdigit(ch) == \E i \in 1..10 : DigitChars[i] = ch

DigitValue(ch) == (CHOOSE i \in 1..10 : DigitChars[i] = ch) - 1

\* space, \t, \n, \v, \f, \r
isspace(ch) == ch \in {" ", "\t", "\n", "VT", "\f", "\r"}

\* *c for a cursor c into the format
At(fmt, i) == IF i > Len(fmt) THEN NUL ELSE fmt[i]

-----------------------------------------------------------------------------
(* the build: BYTE_ORDER and the alignments of the scalar types            *)

LITTLE_ENDIAN == "LE"
BIG_ENDIAN    == "BE"

alignof_int16  == 2
alignof_uint32 == 4
alignof_uint64 == 8
alignof_float  == 4
alignof_double == 8

\* the padding macro without its outer modulo: a full alignment unit is
\* inserted before a field that is already aligned
struct_field_padding_unreduced(ctx, align) ==
    IF ctx.native_alignment # 0
    THEN align - (ctx.offset[1] % align)
    ELSE 0

\* struct_field_padding(context, type), with the alignment of type
struct_field_padding(ctx, align) ==
    IF ctx.native_alignment # 0
    THEN (align - (ctx.offset[1] % align)) % align
    ELSE 0

-----------------------------------------------------------------------------
(* format definition table                                                 *)

struct_format_fields == <<
    [format |-> "x", codec |-> "pad"],
    [format |-> "c", codec |-> "byte"],
    [format |-> "b", codec |-> "byte"],
    [format |-> "B", codec |-> "byte"],
    [format |-> "?", codec |-> "bool"],
    [format |-> "h", codec |-> "short"],
    [format |-> "H", codec |-> "short"],
    [format |-> "i", codec |-> "int"],
    [format |-> "I", codec |-> "int"],
    [format |-> "l", codec |-> "int"],
    [format |-> "L", codec |-> "int"],
    [format |-> "q", codec |-> "quad"],
    [format |-> "Q", codec |-> "quad"],
    [format |-> "f", codec |-> "float"],
    [format |-> "d", codec |-> "double"],
    [format |-> "s", codec |-> "str"],
    [format |-> NUL, codec |-> NULL] >>

-----------------------------------------------------------------------------
(* struct_parse_field and struct_parse_prefix                              *)

RECURSIVE SkipSpace(_, _)
\* while (isspace(*c)) c++;
SkipSpace(fmt, i) ==
    IF isspace(At(fmt, i)) THEN SkipSpace(fmt, i + 1) ELSE i

RECURSIVE ReadRepeat(_, _, _)
\* do { repeat = repeat * 10 + *c - '0'; c++; } while (isdigit(*c));
\* (repeat is a 64-bit word after every assignment, which the test of its
\* length makes the evaluation compute before the next digit is read)
ReadRepeat(fmt, i, acc) ==
    LET r == sz_add(sz_mul(acc, 10), SZ(DigitValue(At(fmt, i))))
    IN  IF Len(r) = 4 /\ isdigit(At(fmt, i + 1))
        THEN ReadRepeat(fmt, i + 1, r)
        ELSE [c |-> i + 1, repeat |-> r]

RECURSIVE FindField(_, _)
\* while ((*field)->format != '\0' && (*field)->format != *c) (*field)++;
FindField(ch, k) ==
    IF struct_format_fields[k].format # NUL /\ struct_format_fields[k].format # ch
    THEN FindField(ch, k + 1)
    ELSE k

\* returns the next cursor, the context with repeat set, and the table row
\* found; *field = NULL is the terminating row, whose codec is NULL
struct_parse_field(fmt, c0, ctx) ==
    LET c1  == SkipSpace(fmt, c0)
        rep == IF isdigit(At(fmt, c1))
               THEN ReadRepeat(fmt, c1, sz_zero)
               ELSE [c |-> c1, repeat |-> SZ(1)]
        k   == FindField(At(fmt, rep.c), 1)
        row == struct_format_fields[k]
    IN  [c       |-> IF row.format # NUL THEN rep.c + 1 ELSE rep.c,
         context |-> [ctx EXCEPT !.repeat = rep.repeat],
         field   |-> row]

\* memset(&context, 0, sizeof(context))
ZeroContext ==
    [byte_order |-> 0, native_alignment |-> 0, native_size |-> 0,
     offset |-> sz_zero, repeat |-> sz_zero]

\* struct_parse_prefix with the '<' case left at native alignment
struct_parse_prefix_aligned(h, fmt, ctx) ==
    LET ch == At(fmt, 1)
    IN  IF ch = "="
        THEN [c |-> 2, context |-> [ctx EXCEPT !.byte_order = h,
                    !.native_size = 0, !.native_alignment = 0]]
        ELSE IF ch = "<"
        THEN [c |-> 2, context |-> [ctx EXCEPT !.byte_order = LITTLE_ENDIAN,
                    !.native_size = 0, !.native_alignment = 1]]
        ELSE IF ch \in {">", "!"}
        THEN [c |-> 2, context |-> [ctx EXCEPT !.byte_order = BIG_ENDIAN,
                    !.native_size = 0, !.native_alignment = 0]]
        ELSE [c |-> IF ch = "@" THEN 2 ELSE 1,
              context |-> [ctx EXCEPT !.byte_order = h,
                    !.native_size = 1, !.native_alignment = 1]]

struct_parse_prefix(h, fmt, ctx) ==
    LET ch == At(fmt, 1)
    IN  IF ch = "="
        THEN [c |-> 2, context |-> [ctx EXCEPT !.byte_order = h,
                    !.native_size = 0, !.native_alignment = 0]]
        ELSE IF ch = "<"
        THEN [c |-> 2, context |-> [ctx EXCEPT !.byte_order = LITTLE_ENDIAN,
                    !.native_size = 0, !.native_alignment = 0]]
        ELSE IF ch \in {">", "!"}
        THEN [c |-> 2, context |-> [ctx EXCEPT !.byte_order = BIG_ENDIAN,
                    !.native_size = 0, !.native_alignment = 0]]
        ELSE [c |-> IF ch = "@" THEN 2 ELSE 1,
              context |-> [ctx EXCEPT !.byte_order = h,
                    !.native_size = 1, !.native_alignment = 1]]

-----------------------------------------------------------------------------
(* calcsize handlers                                                       *)

struct_calcsize_pad(ctx)    == sz_mul(ctx.repeat, 1)
struct_calcsize_byte(ctx)   == sz_mul(ctx.repeat, 1)
struct_calcsize_bool(ctx)   == sz_mul(ctx.repeat, 1)
struct_calcsize_short(ctx)  ==
    sz_add(SZ(struct_field_padding(ctx, alignof_int16)), sz_mul(ctx.repeat, 2))
struct_calcsize_int(ctx)    ==
    sz_add(SZ(struct_field_padding(ctx, alignof_uint32)), sz_mul(ctx.repeat, 4))
struct_calcsize_quad(ctx)   ==
    sz_add(SZ(struct_field_padding(ctx, alignof_uint64)), sz_mul(ctx.repeat, 8))
struct_calcsize_float(ctx)  ==
    sz_add(SZ(struct_field_padding(ctx, alignof_float)), sz_mul(ctx.repeat, 4))
struct_calcsize_double(ctx) ==
    sz_add(SZ(struct_field_padding(ctx, alignof_double)), sz_mul(ctx.repeat, 8))
struct_calcsize_str(ctx)    == sz_mul(ctx.repeat, 1)

\* field->calcsize(&context)
field_calcsize(field, ctx) ==
    CASE field.codec = "pad"    -> struct_calcsize_pad(ctx)
      [] field.codec = "byte"   -> struct_calcsize_byte(ctx)
      [] field.codec = "bool"   -> struct_calcsize_bool(ctx)
      [] field.codec = "short"  -> struct_calcsize_short(ctx)
      [] field.codec = "int"    -> struct_calcsize_int(ctx)
      [] field.codec = "quad"   -> struct_calcsize_quad(ctx)
      [] field.codec = "float"  -> struct_calcsize_float(ctx)
      [] field.codec = "double" -> struct_calcsize_double(ctx)
      [] field.codec = "str"    -> struct_calcsize_str(ctx)

-----------------------------------------------------------------------------
(* byte-order helpers: a value is the tuple of its bytes, least            *)
(* significant first; stor_N yields the bytes in address order and load_N  *)
(* takes them in address order                                             *)

load_16(h, m) == IF h = LITTLE_ENDIAN THEN <<m[1], m[2]>> ELSE <<m[2], m[1]>>

stor_16(h, v) == IF h = LITTLE_ENDIAN THEN <<v[1], v[2]>> ELSE <<v[2], v[1]>>

\* a swab_16 that leaves the value as it is
swab_16_kept(v) == v

swab_16(v) == <<v[2], v[1]>>

load_32(h, m) ==
    IF h = LITTLE_ENDIAN THEN <<m[1], m[2], m[3], m[4]>>
    ELSE <<m[4], m[3], m[2], m[1]>>

\* a stor_32 that stores least significant byte first on either host
stor_32_little(h, v) == <<v[1], v[2], v[3], v[4]>>

stor_32(h, v) ==
    IF h = LITTLE_ENDIAN THEN <<v[1], v[2], v[3], v[4]>>
    ELSE <<v[4], v[3], v[2], v[1]>>

\* a swab_32 that exchanges the 16-bit halves only
swab_32_halves(v) == <<v[3], v[4], v[1], v[2]>>

swab_32(v) == <<v[4], v[3], v[2], v[1]>>

\* p8[sizeof - i - 1] (little endian) or p8[i] (big endian) is shifted in
\* first and so ends as the most significant byte
load_64(h, m) ==
    IF h = LITTLE_ENDIAN THEN [k \in 1..8 |-> m[k]]
    ELSE [k \in 1..8 |-> m[9 - k]]

stor_64(h, v) ==
    IF h = LITTLE_ENDIAN THEN [k \in 1..8 |-> v[k]]
    ELSE [k \in 1..8 |-> v[9 - k]]

swab_64(v) == [k \in 1..8 |-> v[9 - k]]

-----------------------------------------------------------------------------
(* variadic arguments                                                      *)
(* An argument slot is a record: i, the 64-bit integer passed (its low     *)
(* bytes are what va_arg(int) and va_arg(uint32_t) fetch); d, the double   *)
(* passed; s, the bytes a char pointer passed points to, or the pointer    *)
(* being NULL.  The k-th argument fetched is ArgAt(a, k): the caller       *)
(* passes as many arguments as are fetched, cycling through the vector.    *)

ArgAt(a, k) == a[((k - 1) % Len(a)) + 1]

Low(v, w) == [k \in 1..w |-> v[k]]

\* the float a double converts to (v.f = va_arg(*vl, double)), on the
\* doubles the callers pass: 0.0, 4.0, 5.0 and 0.1
float_of_double(d) ==
    CASE d = <<0, 0, 0, 0, 0, 0, 16, 64>>            -> <<0, 0, 128, 64>>
      [] d = <<0, 0, 0, 0, 0, 0, 20, 64>>            -> <<0, 0, 160, 64>>
      [] d = <<154, 153, 153, 153, 153, 153, 185, 63>> -> <<205, 204, 204, 61>>
      [] OTHER                                       -> <<0, 0, 0, 0>>

\* number of loop iterations for (i = 0; i < context->repeat; i++); a count
\* of 2^16 or more exceeds every modelled buffer and is cut to 2^16
Count(ctx) == IF sz_fits(ctx.repeat) THEN ctx.repeat[1] ELSE LimbBase

\* the caller's buffer after a handler has zero-filled pad bytes at index b
\* and stored n elements of w bytes after them, elems[e] being the bytes of
\* element e in address order; stores outside the buffer are flagged
PackRun(mem, b, pad, n, w, elems) ==
    LET T   == pad + n * w
        idx == {i \in DOMAIN mem : b <= i /\ i < b + T}
    IN  [buffer |-> [i \in DOMAIN mem |->
                        IF i \in idx
                        THEN IF i - b < pad THEN 0
                             ELSE elems[(i - b - pad) \div w][((i - b - pad) % w) + 1]
                        ELSE mem[i]],
         oob    |-> T > 0 /\ ~(b >= 0 /\ b + T <= Cardinality(DOMAIN mem))]

\* *q for a byte pointer q = buffer + i; a load outside the buffer yields
\* whatever the memory there holds (junk)
ReadByte(mem, i, junk) == IF i \in DOMAIN mem THEN mem[i] ELSE junk

\* the n elements of w bytes a handler loads after pad bytes at index b,
\* each as its w bytes in address order; a count beyond the argument list
\* stores through pointers that are not the caller's and yields nothing here
UnpackRun(mem, b, pad, n, w, junk) ==
    [elems |-> IF n >= LimbBase THEN <<>>
               ELSE [e \in 1..n |->
                       [k \in 1..w |-> ReadByte(mem, b + pad + (e - 1) * w + (k - 1), junk)]],
     oob   |-> n > 0 /\ ~(b + pad >= 0 /\ b + pad + n * w <= Cardinality(DOMAIN mem))]

-----------------------------------------------------------------------------
(* pack handlers: each yields the buffer after the handler, the argument   *)
(* counter, the value returned, whether it stored outside the buffer (oob) *)
(* and whether it read past the end of the source string (over)            *)

\* x without the memset: the bytes are passed over, not written
struct_pack_pad_skipped(h, mem, b, ctx, vl0, a, junk) ==
    [buffer |-> mem, oob |-> FALSE, over |-> FALSE, vl |-> vl0, skip |-> 0,
     ret |-> sz_mul(ctx.repeat, 1)]

struct_pack_pad(h, mem, b, ctx, vl0, a, junk) ==
    LET elems == [e \in 0..(Count(ctx) - 1) |-> <<0>>]
        r == PackRun(mem, b, 0, Count(ctx), 1, elems)
    IN  [buffer |-> r.buffer, oob |-> r.oob, over |-> FALSE, vl |-> vl0, skip |-> 0,
         ret |-> sz_mul(ctx.repeat, 1)]

struct_pack_byte(h, mem, b, ctx, vl0, a, junk) ==
    LET elems == [e \in 0..(Count(ctx) - 1) |-> <<ArgAt(a, vl0 + e + 1).i[1]>>]
        r == PackRun(mem, b, 0, Count(ctx), 1, elems)
    IN  [buffer |-> r.buffer, oob |-> r.oob, over |-> FALSE, vl |-> vl0 + Count(ctx), skip |-> 0,
         ret |-> sz_mul(ctx.repeat, 1)]

\* '?' without the comparison with 0: the low byte of the int is stored
struct_pack_bool_raw(h, mem, b, ctx, vl0, a, junk) ==
    LET elems == [e \in 0..(Count(ctx) - 1) |-> Low(ArgAt(a, vl0 + e + 1).i, 1)]
        r == PackRun(mem, b, 0, Count(ctx), 1, elems)
    IN  [buffer |-> r.buffer, oob |-> r.oob, over |-> FALSE, vl |-> vl0 + Count(ctx), skip |-> 0,
         ret |-> sz_mul(ctx.repeat, 1)]

struct_pack_bool(h, mem, b, ctx, vl0, a, junk) ==
    LET elems == [e \in 0..(Count(ctx) - 1) |->
                    IF Low(ArgAt(a, vl0 + e + 1).i, 4) # <<0, 0, 0, 0>>
                    THEN <<1>> ELSE <<0>>]
        r == PackRun(mem, b, 0, Count(ctx), 1, elems)
    IN  [buffer |-> r.buffer, oob |-> r.oob, over |-> FALSE, vl |-> vl0 + Count(ctx), skip |-> 0,
         ret |-> sz_mul(ctx.repeat, 1)]

struct_pack_short(h, mem, b, ctx, vl0, a, junk) ==
    LET padding == struct_field_padding(ctx, alignof_int16)
        elems == [e \in 0..(Count(ctx) - 1) |->
                    LET v == Low(ArgAt(a, vl0 + e + 1).i, 2)
                    IN  stor_16(h, IF ctx.byte_order # h THEN swab_16(v) ELSE v)]
        r == PackRun(mem, b, padding, Count(ctx), 2, elems)
    IN  [buffer |-> r.buffer, oob |-> r.oob, over |-> FALSE, vl |-> vl0 + Count(ctx), skip |-> padding,
         ret |-> sz_add(SZ(padding), sz_mul(ctx.repeat, 2))]

\* struct_pack_int with the loop written do { } while (++i < repeat): one
\* value is fetched and stored even when repeat is 0
struct_pack_int_dowhile(h, mem, b, ctx, vl0, a, junk) ==
    LET padding == struct_field_padding(ctx, alignof_uint32)
        n       == IF Count(ctx) = 0 THEN 1 ELSE Count(ctx)
        elems == [e \in 0..(n - 1) |->
                    LET v == Low(ArgAt(a, vl0 + e + 1).i, 4)
                    IN  stor_32(h, IF ctx.byte_order # h THEN swab_32(v) ELSE v)]
        r == PackRun(mem, b, padding, n, 4, elems)
    IN  [buffer |-> r.buffer, oob |-> r.oob, over |-> FALSE, vl |-> vl0 + n, skip |-> padding,
         ret |-> sz_add(SZ(padding), sz_mul(ctx.repeat, 4))]

struct_pack_int(h, mem, b, ctx, vl0, a, junk) ==
    LET padding == struct_field_padding(ctx, alignof_uint32)
        elems == [e \in 0..(Count(ctx) - 1) |->
                    LET v == Low(ArgAt(a, vl0 + e + 1).i, 4)
                    IN  stor_32(h, IF ctx.byte_order # h THEN swab_32(v) ELSE v)]
        r == PackRun(mem, b, padding, Count(ctx), 4, elems)
    IN  [buffer |-> r.buffer, oob |-> r.oob, over |-> FALSE, vl |-> vl0 + Count(ctx), skip |-> padding,
         ret |-> sz_add(SZ(padding), sz_mul(ctx.repeat, 4))]

struct_pack_quad(h, mem, b, ctx, vl0, a, junk) ==
    LET padding == struct_field_padding(ctx, alignof_uint64)
        elems == [e \in 0..(Count(ctx) - 1) |->
                    LET v == Low(ArgAt(a, vl0 + e + 1).i, 8)
                    IN  stor_64(h, IF ctx.byte_order # h THEN swab_64(v) ELSE v)]
        r == PackRun(mem, b, padding, Count(ctx), 8, elems)
    IN  [buffer |-> r.buffer, oob |-> r.oob, over |-> FALSE, vl |-> vl0 + Count(ctx), skip |-> padding,
         ret |-> sz_add(SZ(padding), sz_mul(ctx.repeat, 8))]

struct_pack_float(h, mem, b, ctx, vl0, a, junk) ==
    LET padding == struct_field_padding(ctx, alignof_float)
        elems == [e \in 0..(Count(ctx) - 1) |->
                    LET v == float_of_double(ArgAt(a, vl0 + e + 1).d)
                    IN  stor_32(h, IF ctx.byte_order # h THEN swab_32(v) ELSE v)]
        r == PackRun(mem, b, padding, Count(ctx), 4, elems)
    IN  [buffer |-> r.buffer, oob |-> r.oob, over |-> FALSE, vl |-> vl0 + Count(ctx), skip |-> padding,
         ret |-> sz_add(SZ(padding), sz_mul(ctx.repeat, 4))]

struct_pack_double(h, mem, b, ctx, vl0, a, junk) ==
    LET padding == struct_field_padding(ctx, alignof_double)
        elems == [e \in 0..(Count(ctx) - 1) |->
                    LET v == ArgAt(a, vl0 + e + 1).d
                    IN  stor_64(h, IF ctx.byte_order # h THEN swab_64(v) ELSE v)]
        r == PackRun(mem, b, padding, Count(ctx), 8, elems)
    IN  [buffer |-> r.buffer, oob |-> r.oob, over |-> FALSE, vl |-> vl0 + Count(ctx), skip |-> padding,
         ret |-> sz_add(SZ(padding), sz_mul(ctx.repeat, 8))]

\* the character '0' the loop compares *str with
CharZero == 48

\* *(str + k) for the source str; past its end, whatever memory holds
SrcAt(src, k, junk) == IF k < Len(src) THEN src[k + 1] ELSE junk

RECURSIVE StrStop(_, _, _)
\* the number of iterations that copy: str advances until *str == '0'
StrStop(src, k, junk) ==
    IF k >= LimbBase \/ SrcAt(src, k, junk) = CharZero THEN k
    ELSE IF k >= Len(src) THEN LimbBase
    ELSE StrStop(src, k + 1, junk)

struct_pack_str(h, mem, b, ctx, vl0, a, junk) ==
    LET str  == ArgAt(a, vl0 + 1)
        stop == IF str.snull THEN 0 ELSE StrStop(str.s, 0, junk)
        elems == [e \in 0..(Count(ctx) - 1) |->
                    IF e < stop THEN <<SrcAt(str.s, e, junk)>> ELSE <<0>>]
        r == PackRun(mem, b, 0, Count(ctx), 1, elems)
        reads == IF Count(ctx) <= stop THEN Count(ctx) ELSE stop + 1
    IN  [buffer |-> r.buffer, oob |-> r.oob,
         over |-> ~str.snull /\ reads > Len(str.s),
         vl |-> vl0 + 1, skip |-> 0,
         ret |-> sz_mul(ctx.repeat, 1)]

\* field->pack(p, &context, &vl)
field_pack(field, h, mem, b, ctx, vl0, a, junk) ==
    CASE field.codec = "pad"    -> struct_pack_pad(h, mem, b, ctx, vl0, a, junk)
      [] field.codec = "byte"   -> struct_pack_byte(h, mem, b, ctx, vl0, a, junk)
      [] field.codec = "bool"   -> struct_pack_bool(h, mem, b, ctx, vl0, a, junk)
      [] field.codec = "short"  -> struct_pack_short(h, mem, b, ctx, vl0, a, junk)
      [] field.codec = "int"    -> struct_pack_int(h, mem, b, ctx, vl0, a, junk)
      [] field.codec = "quad"   -> struct_pack_quad(h, mem, b, ctx, vl0, a, junk)
      [] field.codec = "float"  -> struct_pack_float(h, mem, b, ctx, vl0, a, junk)
      [] field.codec = "double" -> struct_pack_double(h, mem, b, ctx, vl0, a, junk)
      [] field.codec = "str"    -> struct_pack_str(h, mem, b, ctx, vl0, a, junk)

-----------------------------------------------------------------------------
(* unpack handlers: each yields the values stored through the argument     *)
(* pointers, the argument counter, the value returned and whether it       *)
(* loaded from outside the buffer                                          *)

struct_unpack_pad(h, mem, b, ctx, vl0, cap, junk) ==
    [stored |-> <<>>, oob |-> FALSE, vl |-> vl0, skip |-> 0,
     ret |-> sz_mul(ctx.repeat, 1)]

struct_unpack_byte(h, mem, b, ctx, vl0, cap, junk) ==
    LET r == UnpackRun(mem, b, 0, Count(ctx), 1, junk)
    IN  [stored |-> r.elems, oob |-> r.oob, vl |-> vl0 + Count(ctx), skip |-> 0,
         ret |-> sz_mul(ctx.repeat, 1)]

struct_unpack_bool(h, mem, b, ctx, vl0, cap, junk) ==
    LET r == UnpackRun(mem, b, 0, Count(ctx), 1, junk)
    IN  [stored |-> [e \in DOMAIN r.elems |->
                        IF r.elems[e][1] # 0 THEN <<1>> ELSE <<0>>],
         oob |-> r.oob, vl |-> vl0 + Count(ctx), skip |-> 0,
         ret |-> sz_mul(ctx.repeat, 1)]

struct_unpack_short(h, mem, b, ctx, vl0, cap, junk) ==
    LET padding == struct_field_padding(ctx, alignof_int16)
        r == UnpackRun(mem, b, padding, Count(ctx), 2, junk)
    IN  [stored |-> [e \in DOMAIN r.elems |->
                        LET v == load_16(h, r.elems[e])
                        IN  IF ctx.byte_order # h THEN swab_16(v) ELSE v],
         oob |-> r.oob, vl |-> vl0 + Count(ctx), skip |-> padding,
         ret |-> sz_add(SZ(padding), sz_mul(ctx.repeat, 2))]

struct_unpack_int(h, mem, b, ctx, vl0, cap, junk) ==
    LET padding == struct_field_padding(ctx, alignof_uint32)
        r == UnpackRun(mem, b, padding, Count(ctx), 4, junk)
    IN  [stored |-> [e \in DOMAIN r.elems |->
                        LET v == load_32(h, r.elems[e])
                        IN  IF ctx.byte_order # h THEN swab_32(v) ELSE v],
         oob |-> r.oob, vl |-> vl0 + Count(ctx), skip |-> padding,
         ret |-> sz_add(SZ(padding), sz_mul(ctx.repeat, 4))]

struct_unpack_quad(h, mem, b, ctx, vl0, cap, junk) ==
    LET padding == struct_field_padding(ctx, alignof_uint64)
        r == UnpackRun(mem, b, padding, Count(ctx), 8, junk)
    IN  [stored |-> [e \in DOMAIN r.elems |->
                        LET v == load_64(h, r.elems[e])
                        IN  IF ctx.byte_order # h THEN swab_64(v) ELSE v],
         oob |-> r.oob, vl |-> vl0 + Count(ctx), skip |-> padding,
         ret |-> sz_add(SZ(padding), sz_mul(ctx.repeat, 8))]

struct_unpack_float(h, mem, b, ctx, vl0, cap, junk) ==
    LET padding == struct_field_padding(ctx, alignof_float)
        r == UnpackRun(mem, b, padding, Count(ctx), 4, junk)
    IN  [stored |-> [e \in DOMAIN r.elems |->
                        LET v == load_32(h, r.elems[e])
                        IN  IF ctx.byte_order # h THEN swab_32(v) ELSE v],
         oob |-> r.oob, vl |-> vl0 + Count(ctx), skip |-> padding,
         ret |-> sz_add(SZ(padding), sz_mul(ctx.repeat, 4))]

struct_unpack_double(h, mem, b, ctx, vl0, cap, junk) ==
    LET padding == struct_field_padding(ctx, alignof_double)
        r == UnpackRun(mem, b, padding, Count(ctx), 8, junk)
    IN  [stored |-> [e \in DOMAIN r.elems |->
                        LET v == load_64(h, r.elems[e])
                        IN  IF ctx.byte_order # h THEN swab_64(v) ELSE v],
         oob |-> r.oob, vl |-> vl0 + Count(ctx), skip |-> padding,
         ret |-> sz_add(SZ(padding), sz_mul(ctx.repeat, 8))]

\* a destination byte the call has not written
Uninit == 0 - 1

RECURSIVE FirstNul(_, _, _, _, _)
\* the number of characters strncpy copies before a NUL or the limit n
FirstNul(mem, b, k, n, junk) ==
    IF k >= n \/ ReadByte(mem, b + k, junk) = 0 THEN k
    ELSE FirstNul(mem, b, k + 1, n, junk)

\* strncpy given the repeat count, not the smaller of it and str_size
struct_unpack_str_unclamped(h, mem, b, ctx, vl0, cap, junk) ==
    LET n     == Count(ctx)
        z     == FirstNul(mem, b, 0, n, junk)
        reads == IF z < n THEN z + 1 ELSE n
        wrote == 0..(n - 1) \cup {cap - 1}
        copy  == [k \in 0..(cap - 1) \cup wrote |->
                    IF k < z THEN ReadByte(mem, b + k, junk)
                    ELSE IF k < n THEN 0
                    ELSE Uninit]
        dest  == [k \in DOMAIN copy |-> IF k = cap - 1 THEN 0 ELSE copy[k]]
    IN  [stored |-> <<dest>>,
         oob |-> reads > 0 /\ ~(b >= 0 /\ b + reads <= Cardinality(DOMAIN mem)),
         vl |-> vl0 + 2, skip |-> 0,
         ret |-> sz_mul(ctx.repeat, 1)]

\* str is the destination (cap bytes, the str_size argument); stored is the
\* destination after strncpy and the terminator, over the indices of the
\* destination and every index the two statements store to
struct_unpack_str(h, mem, b, ctx, vl0, cap, junk) ==
    LET n     == IF sz_fits(ctx.repeat) /\ ctx.repeat[1] < cap
                 THEN ctx.repeat[1] ELSE cap
        z     == FirstNul(mem, b, 0, n, junk)
        reads == IF z < n THEN z + 1 ELSE n
        wrote == 0..(n - 1) \cup {cap - 1}
        copy  == [k \in 0..(cap - 1) \cup wrote |->
                    IF k < z THEN ReadByte(mem, b + k, junk)
                    ELSE IF k < n THEN 0
                    ELSE Uninit]
        dest  == [k \in DOMAIN copy |-> IF k = cap - 1 THEN 0 ELSE copy[k]]
    IN  [stored |-> <<dest>>,
         oob |-> reads > 0 /\ ~(b >= 0 /\ b + reads <= Cardinality(DOMAIN mem)),
         vl |-> vl0 + 2, skip |-> 0,
         ret |-> sz_mul(ctx.repeat, 1)]

\* field->unpack(p, &context, &vl)
field_unpack(field, h, mem, b, ctx, vl0, cap, junk) ==
    CASE field.codec = "pad"    -> struct_unpack_pad(h, mem, b, ctx, vl0, cap, junk)
      [] field.codec = "byte"   -> struct_unpack_byte(h, mem, b, ctx, vl0, cap, junk)
      [] field.codec = "bool"   -> struct_unpack_bool(h, mem, b, ctx, vl0, cap, junk)
      [] field.codec = "short"  -> struct_unpack_short(h, mem, b, ctx, vl0, cap, junk)
      [] field.codec = "int"    -> struct_unpack_int(h, mem, b, ctx, vl0, cap, junk)
      [] field.codec = "quad"   -> struct_unpack_quad(h, mem, b, ctx, vl0, cap, junk)
      [] field.codec = "float"  -> struct_unpack_float(h, mem, b, ctx, vl0, cap, junk)
      [] field.codec = "double" -> struct_unpack_double(h, mem, b, ctx, vl0, cap, junk)
      [] field.codec = "str"    -> struct_unpack_str(h, mem, b, ctx, vl0, cap, junk)

-----------------------------------------------------------------------------
(* one iteration of the loop of each public function, on the record of     *)
(* its locals; brk is TRUE when the iteration left the loop by break       *)

\* the error value -1
sz_minus_one == sz_neg(SZ(1))

\* what the handler of one field did, for the record of the call
LogEntry(field, ctx, b, r, vl0, o0, field_size) ==
    [letter |-> field.format, at |-> b, skip |-> r.skip, n |-> Count(ctx),
     vl0 |-> vl0, vl1 |-> r.vl, o0 |-> o0, field_size |-> field_size]

\* struct_calcsize, after field->calcsize: the test of the size
struct_calcsize_sized(s, next, field_size) ==
    IF field_size = sz_zero \/ sz_negative(field_size)
    THEN [s EXCEPT !.context = next.context, !.brk = TRUE]
    ELSE [s EXCEPT !.result = sz_add(s.result, field_size),
                   !.context = [next.context EXCEPT
                                   !.offset = sz_add(next.context.offset, field_size)],
                   !.c = next.c]

\* struct_calcsize, after struct_parse_field: the NULL test, the size of
\* the field and the accumulation
struct_calcsize_field(s, next) ==
    IF next.field.codec = NULL
    THEN [s EXCEPT !.context = next.context, !.brk = TRUE]
    ELSE struct_calcsize_sized(s, next, field_calcsize(next.field, next.context))

struct_calcsize_iter(fmt, s) ==
    struct_calcsize_field(s, struct_parse_field(fmt, s.c, s.context))

\* struct_pack, after the handler has returned r
struct_pack_stored(ub, s, next, field_size, r) ==
    IF (r.oob \/ r.over) /\ ub.fault
    THEN [s EXCEPT !.context = next.context, !.oob = s.oob \/ r.oob, !.fault = TRUE]
    ELSE IF r.ret # field_size
    THEN [s EXCEPT !.context = next.context, !.buffer = r.buffer, !.vl = r.vl,
                   !.oob = s.oob \/ r.oob, !.brk = TRUE]
    ELSE [s EXCEPT !.buffer = r.buffer, !.vl = r.vl,
                   !.oob = s.oob \/ r.oob,
                   !.log = Append(s.log,
                             LogEntry(next.field, next.context, sz_int(s.p), r, s.vl,
                                      Len(s.outs), field_size)),
                   !.p = sz_add(s.p, field_size),
                   !.context = [next.context EXCEPT
                                   !.offset = sz_add(next.context.offset, field_size)],
                   !.c = next.c]

\* the handler called before the capacity test: a field that does not fit
\* has already been stored when the loop is left
struct_pack_sized_late(h, sz, a, ub, s, next, field_size) ==
    LET r == field_pack(next.field, h, s.buffer, sz_int(s.p), next.context, s.vl,
                        a, ub.junk)
    IN  IF sz_slt(sz_sub(SZ(sz), s.p), field_size)
        THEN [s EXCEPT !.context = next.context, !.buffer = r.buffer, !.brk = TRUE]
        ELSE struct_pack_stored(ub, s, next, field_size, r)

\* struct_pack, after field->calcsize: the capacity test and the handler
struct_pack_sized(h, sz, a, ub, s, next, field_size) ==
    IF sz_slt(sz_sub(SZ(sz), s.p), field_size)
    THEN [s EXCEPT !.context = next.context, !.brk = TRUE]
    ELSE struct_pack_stored(ub, s, next, field_size,
             field_pack(next.field, h, s.buffer, sz_int(s.p), next.context, s.vl,
                        a, ub.junk))

\* struct_pack, after struct_parse_field: the NULL test and the field size
struct_pack_field(h, sz, a, ub, s, next) ==
    IF next.field.codec = NULL
    THEN [s EXCEPT !.context = next.context, !.brk = TRUE]
    ELSE struct_pack_sized(h, sz, a, ub, s, next,
                           field_calcsize(next.field, next.context))

struct_pack_iter(h, fmt, sz, a, ub, s) ==
    struct_pack_field(h, sz, a, ub, s, struct_parse_field(fmt, s.c, s.context))

\* struct_unpack, after the handler has returned r
\* (cap, the capacity passed for an 's' destination, is kept with the record
\* of the field)
struct_unpack_stored(ub, s, next, field_size, cap, r) ==
    IF r.oob /\ ub.fault
    THEN [s EXCEPT !.context = next.context, !.oob = TRUE, !.fault = TRUE]
    ELSE IF r.ret # field_size
    THEN [s EXCEPT !.context = next.context, !.vl = r.vl,
                   !.outs = s.outs \o [e \in DOMAIN r.stored |->
                                [letter |-> next.field.format, v |-> r.stored[e]]],
                   !.oob = s.oob \/ r.oob, !.brk = TRUE]
    ELSE [s EXCEPT !.vl = r.vl,
                   !.outs = s.outs \o [e \in DOMAIN r.stored |->
                                [letter |-> next.field.format, v |-> r.stored[e]]],
                   !.oob = s.oob \/ r.oob,
                   !.log = Append(s.log,
                             LogEntry(next.field, next.context, sz_int(s.p), r, s.vl,
                                      Len(s.outs), field_size)
                                @@ [cap |-> cap]),
                   !.p = sz_add(s.p, field_size),
                   !.context = [next.context EXCEPT
                                   !.offset = sz_add(next.context.offset, field_size)],
                   !.c = next.c]

\* struct_unpack, after field->calcsize: the length test and the handler
struct_unpack_sized(h, sz, cap, ub, s, next, field_size) ==
    IF sz_slt(sz_sub(SZ(sz), s.p), field_size)
    THEN [s EXCEPT !.context = next.context, !.brk = TRUE]
    ELSE struct_unpack_stored(ub, s, next, field_size, cap,
             field_unpack(next.field, h, s.buffer, sz_int(s.p), next.context, s.vl,
                          cap, ub.junk))

\* struct_unpack, after struct_parse_field: the NULL test and the field size
struct_unpack_field(h, sz, cap, ub, s, next) ==
    IF next.field.codec = NULL
    THEN [s EXCEPT !.context = next.context, !.brk = TRUE]
    ELSE struct_unpack_sized(h, sz, cap, ub, s, next,
                             field_calcsize(next.field, next.context))

struct_unpack_iter(h, fmt, sz, cap, ub, s) ==
    struct_unpack_field(h, sz, cap, ub, s, struct_parse_field(fmt, s.c, s.context))

-----------------------------------------------------------------------------
(* the inputs of the calls                                                 *)

MaxSize    == 16   \* the largest buffer size passed
MaxRepeat  == 2    \* the largest repeat count of a generated item
MaxLead    == 3    \* the largest repeat count of a leading item
MaxStrSize == 3    \* the largest capacity passed with an 's' destination

Kinds == {struct_format_fields[k].format : k \in 1..16}

Prefixes == {<<>>, <<"@">>, <<"=">>, <<"<">>, <<">">>, <<"!">>}

\* an item: an optional one-digit repeat count and a kind letter
Items(kinds, lo, hi) ==
    {<<k>> : k \in kinds} \cup
    {<<DigitChars[n + 1], k>> : n \in lo..hi, k \in kinds}

\* formats of one item, and of a leading pad or byte item and one item
GeneratedFormats ==
    {pre \o it : pre \in Prefixes,
                 it \in Items(Kinds, 0, 0) \cup Items(Kinds, MaxRepeat, MaxRepeat)} \cup
    {pre \o ld \o it : pre \in {<<>>, <<"<">>},
                       ld \in Items({"c"}, 2, MaxLead) \cup {<<"x">>},
                       it \in Items(Kinds, 0, 0)}

\* the formats of tests.c and formats with white space or a misplaced prefix
ExampleFormats ==
    { <<>>, <<"h", "h", "l">>, <<"c", "i">>, <<"i", "c">>,
      <<"l", "l", "h", "0", "l">>, <<"l", "0", "l", "h">>, <<"l", "l", "h">>,
      <<"a", "b", "c">>, <<"1">>, <<"5", "i", " ", "6", "c">>,
      <<"<", "b", "h", "i", "q">>, <<">", "b", "h", "i", "q">>,
      <<" ", "<", "h">>, <<"h", " ">>, <<"2", " ", "h">>, <<"h", "<">>,
      <<"c", "\t", "h">>, <<"@", "@", "c">> }

Formats == GeneratedFormats \cup ExampleFormats

\* the characters of a decimal number given by its digits
Decimal(ds) == [k \in DOMAIN ds |-> DigitChars[ds[k] + 1]]

\* 2^63 - 1 as a repeat count
HalfRange == Decimal(<<9,2,2,3,3,7,2,0,3,6,8,5,4,7,7,5,8,0,7>>)

\* 2^63, 2^62, 2^64 - 1 and 2^64 + 1 as repeat counts, and items of
\* 2^63 - 1 bytes whose sizes add up beyond the range of size_t
WideFormats ==
    { HalfRange \o <<"c">> \o HalfRange \o <<"c">>,
      HalfRange \o <<"c">> \o HalfRange \o <<"c">> \o HalfRange \o <<"c">>,
      Decimal(<<9,2,2,3,3,7,2,0,3,6,8,5,4,7,7,5,8,0,8>>) \o <<"c">>,
      Decimal(<<9,2,2,3,3,7,2,0,3,6,8,5,4,7,7,5,8,0,8>>) \o <<"s">>,
      Decimal(<<4,6,1,1,6,8,6,0,1,8,4,2,7,3,8,7,9,0,4>>) \o <<"i">>,
      Decimal(<<1,8,4,4,6,7,4,4,0,7,3,7,0,9,5,5,1,6,1,5>>) \o <<"x", "c">>,
      Decimal(<<1,8,4,4,6,7,4,4,0,7,3,7,0,9,5,5,1,6,1,5>>) \o <<"x">>,
      Decimal(<<1,8,4,4,6,7,4,4,0,7,3,7,0,9,5,5,1,6,1,7>>) \o <<"h">> }

\* integers and doubles as their bytes, least significant first
Int64(b1, b2, b3, b4, fill) == <<b1, b2, b3, b4, fill, fill, fill, fill>>

Arg(i, d, s) == [i |-> i, d |-> d, snull |-> FALSE, s |-> s]

ArgNull(i, d) == [i |-> i, d |-> d, snull |-> TRUE, s |-> <<>>]

\* 1, 4.0, "a\0b";  0x12131415, 5.0, "r0y";  -1, 0.1, NULL;
\* 0, 0.0, "xyz";  0x0807060504030201, 4.0, "0ab";  -32768, 5.0, "abc";
\* 0x8001, 0.0, "a";  200, 0.1, "0"
A_one   == Arg(Int64(1, 0, 0, 0, 0), <<0, 0, 0, 0, 0, 0, 16, 64>>, <<97, 0, 98>>)
A_word  == Arg(Int64(21, 20, 19, 18, 0), <<0, 0, 0, 0, 0, 0, 20, 64>>, <<114, 48, 121>>)
A_neg   == ArgNull(Int64(255, 255, 255, 255, 255), <<154, 153, 153, 153, 153, 153, 185, 63>>)
A_zero  == Arg(Int64(0, 0, 0, 0, 0), <<0, 0, 0, 0, 0, 0, 0, 0>>, <<120, 121, 122>>)
A_quad  == Arg(<<1, 2, 3, 4, 5, 6, 7, 8>>, <<0, 0, 0, 0, 0, 0, 16, 64>>, <<48, 97, 98>>)
A_short == Arg(Int64(0, 128, 255, 255, 255), <<0, 0, 0, 0, 0, 0, 20, 64>>, <<97, 98, 99>>)

A_half  == Arg(Int64(1, 128, 0, 0, 0), <<0, 0, 0, 0, 0, 0, 0, 0>>, <<97>>)
A_byte  == Arg(Int64(200, 0, 0, 0, 0), <<154, 153, 153, 153, 153, 153, 185, 63>>, <<48>>)

DefaultArgs == <<A_one, A_word, A_neg>>

ArgVectors == {DefaultArgs, <<A_zero, A_one, A_quad>>, <<A_short, A_neg, A_zero>>,
               <<A_quad, A_half, A_byte>>}

\* what a buffer holds before the call: "junk" before a pack, input bytes
\* before an unpack
FillByte(fill, i) ==
    CASE fill = "junk"  -> 170
      [] fill = "count" -> i + 1
      [] fill = "mixed" -> (i * 85 + 128) % 256
      [] fill = "zero"  -> 0
      [] fill = "gap"   -> IF i % 2 = 0 THEN 0 ELSE i + 64

InputFills == {"count", "mixed", "gap"}

\* the outcome of an access outside the buffer: the process faults, or the
\* access hits other memory (a load then yields junk) and the call goes on
UBOutcomes == {[fault |-> TRUE, junk |-> 0], [fault |-> FALSE, junk |-> 0],
               [fault |-> FALSE, junk |-> 255]}

-----------------------------------------------------------------------------
(* the state machine                                                       *)

Locals == [c |-> c, context |-> context, p |-> p, vl |-> vl, buffer |-> buffer,
           result |-> result, outs |-> outs, oob |-> oob, log |-> log,
           brk |-> FALSE, fault |-> FALSE]

InitWith(fmts) ==
    /\ host \in {LITTLE_ENDIAN, BIG_ENDIAN}
    /\ format \in fmts
    /\ format_null = FALSE
    /\ buffer_null = FALSE
    /\ args = DefaultArgs
    /\ op = "none"
    /\ pc = "idle"
    /\ buffer = <<>>
    /\ size = 0
    /\ c = 1
    /\ context = ZeroContext
    /\ p = sz_zero
    /\ vl = 0
    /\ result = sz_zero
    /\ outs = <<>>
    /\ ret = sz_zero
    /\ oob = FALSE
    /\ from_pack = FALSE
    /\ log = <<>>

Init == InitWith(Formats)

InitWide == InitWith(WideFormats \cup ExampleFormats)

\* entry of a call up to the loop: the NULL tests, memset, struct_parse_prefix
Enter(name, bnull, fnull, n, mem) ==
    /\ op' = name
    /\ from_pack' = (op = "pack")
    /\ buffer_null' = bnull
    /\ format_null' = fnull
    /\ size' = n
    /\ buffer' = mem
    /\ vl' = 0
    /\ outs' = <<>>
    /\ log' = <<>>
    /\ result' = sz_zero
    /\ p' = sz_zero
    /\ oob' = FALSE
    /\ IF bnull \/ fnull
       THEN /\ pc' = "done"
            /\ ret' = sz_minus_one
            /\ c' = 1
            /\ context' = ZeroContext
       ELSE LET pre == struct_parse_prefix(host, format, ZeroContext)
            IN  /\ pc' = "loop"
                /\ ret' = sz_zero
                /\ c' = pre.c
                /\ context' = pre.context
    /\ UNCHANGED <<host, format>>

\* a buffer of n bytes
Filled(n, fill) == [i \in 0..(n - 1) |-> FillByte(fill, i)]

\* struct_pack(buffer, size, format, ...): sizes vary with the default
\* arguments, arguments vary with the largest size
CallPack ==
    /\ pc = "idle"
    /\ \/ \E n \in 0..MaxSize, a \in ArgVectors :
            /\ n = MaxSize \/ a = DefaultArgs
            /\ args' = a
            /\ Enter("pack", FALSE, FALSE, n, Filled(n, "junk"))
       \/ \E bnull, fnull \in BOOLEAN :
            /\ bnull \/ fnull
            /\ args' = DefaultArgs
            /\ Enter("pack", bnull, fnull, MaxSize,
                     IF bnull THEN <<>> ELSE Filled(MaxSize, "junk"))

\* struct_unpack(buffer, size, format, ...) on input bytes, or on the bytes
\* a successful struct_pack has just produced
CallUnpack ==
    /\ UNCHANGED args
    /\ \/ /\ pc = "idle"
          /\ \E n \in 0..MaxSize, fill \in InputFills :
                /\ n = MaxSize \/ fill = "count"
                /\ Enter("unpack", FALSE, FALSE, n, Filled(n, fill))
       \/ /\ pc = "idle"
          /\ \E bnull, fnull \in BOOLEAN :
                /\ bnull \/ fnull
                /\ Enter("unpack", bnull, fnull, MaxSize,
                         IF bnull THEN <<>> ELSE Filled(MaxSize, "count"))
       \/ /\ pc = "done" /\ op = "pack" /\ ~sz_negative(ret)
          /\ Enter("unpack", FALSE, FALSE, size, buffer)

\* struct_calcsize(format)
CallCalcsize ==
    /\ pc = "idle"
    /\ UNCHANGED args
    /\ \E fnull \in BOOLEAN : Enter("calcsize", FALSE, fnull, 0, <<>>)

\* the locals after an iteration
Commit(s) ==
    /\ c' = s.c
    /\ context' = s.context
    /\ p' = s.p
    /\ vl' = s.vl
    /\ buffer' = s.buffer
    /\ result' = s.result
    /\ outs' = s.outs
    /\ oob' = s.oob
    /\ log' = s.log
    /\ pc' = IF s.fault THEN "fault" ELSE IF s.brk THEN "break" ELSE "loop"
    /\ UNCHANGED <<host, format, format_null, buffer_null, args, op, size, ret,
                   from_pack>>

\* the outcome of an undefined access and the capacity of an 's' destination
\* are drawn only in the iterations that depend on them
UBFault == [fault |-> TRUE, junk |-> 0]

StrCaps == IF struct_parse_field(format, c, context).field.codec = "str"
           THEN 1..MaxStrSize ELSE {1}

\* one iteration of while (*c != '\0') in struct_pack
PackStep ==
    /\ pc = "loop" /\ op = "pack"
    /\ At(format, c) # NUL
    /\ LET s0 == struct_pack_iter(host, format, size, args, UBFault, Locals)
       IN  IF s0.fault
           THEN \E ub \in UBOutcomes :
                   Commit(struct_pack_iter(host, format, size, args, ub, Locals))
           ELSE Commit(s0)

\* one iteration of while (*c != '\0') in struct_unpack
UnpackStep ==
    /\ pc = "loop" /\ op = "unpack"
    /\ At(format, c) # NUL
    /\ \E cap \in StrCaps :
          LET s0 == struct_unpack_iter(host, format, size, cap, UBFault, Locals)
          IN  IF s0.fault
              THEN \E ub \in UBOutcomes :
                      Commit(struct_unpack_iter(host, format, size, cap, ub, Locals))
              ELSE Commit(s0)

\* one iteration of while (*c != '\0') in struct_calcsize
CalcsizeStep ==
    /\ pc = "loop" /\ op = "calcsize"
    /\ At(format, c) # NUL
    /\ Commit(struct_calcsize_iter(format, Locals))

\* the return without the test of *c: the value accumulated so far is
\* returned although the loop was left early
ReturnAccumulated ==
    /\ \/ pc = "break"
       \/ pc = "loop" /\ At(format, c) = NUL
    /\ pc' = "done"
    /\ ret' = IF op = "calcsize" THEN result ELSE p
    /\ UNCHANGED <<host, format, format_null, buffer_null, args, op, buffer, size,
                   c, context, p, vl, result, outs, oob, from_pack, log>>

\* after the loop: if (*c != '\0') return -1; return p - buffer (or result)
Return ==
    /\ \/ pc = "break"
       \/ pc = "loop" /\ At(format, c) = NUL
    /\ pc' = "done"
    /\ ret' = IF At(format, c) # NUL THEN sz_minus_one
              ELSE IF op = "calcsize" THEN result
              ELSE p
    /\ UNCHANGED <<host, format, format_null, buffer_null, args, op, buffer, size,
                   c, context, p, vl, result, outs, oob, from_pack, log>>

Next ==
    \/ CallPack
    \/ CallUnpack
    \/ CallCalcsize
    \/ PackStep
    \/ UnpackStep
    \/ CalcsizeStep
    \/ Return

Spec == Init /\ [][Next]_vars

SpecWide == InitWide /\ [][Next]_vars

-----------------------------------------------------------------------------
(* the public functions as operators: the loop run to its end              *)

\* the locals at the loop entry
EntryLocals(h, fmt, mem) ==
    LET pre == struct_parse_prefix(h, fmt, ZeroContext)
    IN  [c |-> pre.c, context |-> pre.context, p |-> sz_zero, vl |-> 0,
         buffer |-> mem, result |-> sz_zero, outs |-> <<>>, oob |-> FALSE,
         log |-> <<>>, brk |-> FALSE, fault |-> FALSE]

RECURSIVE CalcsizeLoop(_, _)
CalcsizeLoop(fmt, s) ==
    IF s.brk \/ At(fmt, s.c) = NUL THEN s
    ELSE CalcsizeLoop(fmt, struct_calcsize_iter(fmt, s))

\* struct_calcsize(format) for a format that is not NULL: the value returned
struct_calcsize(h, fmt) ==
    LET s == CalcsizeLoop(fmt, EntryLocals(h, fmt, <<>>))
    IN  IF At(fmt, s.c) # NUL THEN sz_minus_one ELSE s.result

RECURSIVE PackLoop(_, _, _, _, _)
PackLoop(h, fmt, sz, a, s) ==
    IF s.brk \/ s.fault \/ At(fmt, s.c) = NUL THEN s
    ELSE PackLoop(h, fmt, sz, a, struct_pack_iter(h, fmt, sz, a, UBFault, s))

\* struct_pack(buffer, size, format, ...) on a buffer mem of sz bytes: the
\* locals at the return, and the value returned
struct_pack(h, fmt, sz, mem, a) ==
    LET s == PackLoop(h, fmt, sz, a, EntryLocals(h, fmt, mem))
    IN  [s EXCEPT !.result = IF At(fmt, s.c) # NUL THEN sz_minus_one ELSE s.p]

RECURSIVE UnpackLoop(_, _, _, _, _)
UnpackLoop(h, fmt, sz, cap, s) ==
    IF s.brk \/ s.fault \/ At(fmt, s.c) = NUL THEN s
    ELSE UnpackLoop(h, fmt, sz, cap, struct_unpack_iter(h, fmt, sz, cap, UBFault, s))

\* struct_unpack(buffer, size, format, ...), every 's' destination of
\* capacity cap
struct_unpack(h, fmt, sz, mem, cap) ==
    LET s == UnpackLoop(h, fmt, sz, cap, EntryLocals(h, fmt, mem))
    IN  [s EXCEPT !.result = IF At(fmt, s.c) # NUL THEN sz_minus_one ELSE s.p]

-----------------------------------------------------------------------------
(* the layout the format grammar prescribes, read off the format string    *)
(* directly: prefix? (whitespace* digit* kind)*                            *)

PrefixChars == {"@", "=", "<", ">", "!"}

HasPrefix(fmt) == Len(fmt) > 0 /\ fmt[1] \in PrefixChars

\* native mode: '@' or no prefix
IsNative(fmt) == ~HasPrefix(fmt) \/ fmt[1] = "@"

RECURSIVE RefNumber(_, _, _)
\* the decimal number starting at position i, and the position after it
RefNumber(fmt, i, acc) ==
    IF isdigit(At(fmt, i))
    THEN RefNumber(fmt, i + 1, acc * 10 + DigitValue(fmt[i]))
    ELSE [value |-> acc, next |-> i]

RECURSIVE RefItems(_, _)
\* the items from position i on; ok is FALSE when the rest is no item list
RefItems(fmt, i) ==
    IF i > Len(fmt) THEN [ok |-> TRUE, items |-> <<>>]
    ELSE LET j    == SkipSpace(fmt, i)
             num  == RefNumber(fmt, j, 0)
             rep  == IF num.next = j THEN 1 ELSE num.value
             kind == At(fmt, num.next)
             rest == RefItems(fmt, num.next + 1)
         IN  IF kind \notin Kinds THEN [ok |-> FALSE, items |-> <<>>]
             ELSE [ok |-> rest.ok,
                   items |-> <<[kind |-> kind, rep |-> rep]>> \o rest.items]

RefFormat(fmt) == RefItems(fmt, IF HasPrefix(fmt) THEN 2 ELSE 1)

WellFormed(fmt) == RefFormat(fmt).ok

RefWidth(kind) ==
    CASE kind \in {"x", "c", "b", "B", "?", "s"} -> 1
      [] kind \in {"h", "H"}                     -> 2
      [] kind \in {"i", "I", "l", "L", "f"}      -> 4
      [] kind \in {"q", "Q", "d"}                -> 8

\* the bytes inserted before an item of the kind at offset off
RefPad(kind, off, native) ==
    IF native THEN (RefWidth(kind) - (off % RefWidth(kind))) % RefWidth(kind) ELSE 0

RECURSIVE RefEnd(_, _, _, _)
\* the offset after the items k.. laid out from offset off
RefEnd(items, k, off, native) ==
    IF k > Len(items) THEN off
    ELSE RefEnd(items, k + 1,
                off + RefPad(items[k].kind, off, native)
                    + items[k].rep * RefWidth(items[k].kind),
                native)

\* the total size of a well-formed format
RefSize(fmt) == RefEnd(RefFormat(fmt).items, 1, 0, IsNative(fmt))

\* a character that is neither a kind, a digit, white space nor the prefix
HasUnknownLetter(fmt) ==
    \E i \in 1..Len(fmt) :
        /\ fmt[i] \notin Kinds
        /\ ~isdigit(fmt[i])
        /\ ~isspace(fmt[i])
        /\ ~(i = 1 /\ fmt[i] \in PrefixChars)

\* a repeat count that no kind letter follows
HasDanglingRepeat(fmt) ==
    \E i \in 1..Len(fmt) :
        isdigit(fmt[i]) /\ ~isdigit(At(fmt, i + 1)) /\ At(fmt, i + 1) \notin Kinds

\* a call of the function has returned
Returned(name) == pc = "done" /\ op = name

\* a call with both pointers given has returned
Completed(name) == Returned(name) /\ ~format_null /\ ~buffer_null

-----------------------------------------------------------------------------
(* C1: size agreement.  Whenever struct_pack or struct_unpack succeeds, the *)
(* value it returns is struct_calcsize of the same format; so              *)
(* struct_calcsize succeeds on every format they succeed on.               *)

C1_SizeAgreement ==
    (\/ Completed("pack") \/ Completed("unpack")) /\ ~sz_negative(ret)
        => ret = struct_calcsize(host, format)

\* the agreement holds on the formats struct_calcsize accepts
C1_AgreesWhereCalcsizeSucceeds ==
    (\/ Completed("pack") \/ Completed("unpack")) /\ ~sz_negative(ret)
        /\ ~sz_negative(struct_calcsize(host, format))
        => ret = struct_calcsize(host, format)

-----------------------------------------------------------------------------
(* C2: buffer bounds.  struct_pack stores only to, and struct_unpack loads *)
(* only from, buffer bytes at indices in [0, size), whatever the repeat    *)
(* counts are.                                                             *)

C2_BufferBounds == ~oob

-----------------------------------------------------------------------------
(* C3: error sentinel.  struct_pack and struct_unpack return a negative    *)
(* value when buffer or format is NULL, struct_calcsize when format is     *)
(* NULL; all three return a negative value when the format holds a letter  *)
(* that is not in the table or a repeat count without a kind letter; and   *)
(* a call that leaves the loop before the end of the format never returns  *)
(* a non-negative value.                                                   *)

C3_ErrorSentinel ==
    pc = "done" =>
        /\ (op \in {"pack", "unpack"} /\ (buffer_null \/ format_null))
              => sz_negative(ret)
        /\ (op = "calcsize" /\ format_null) => sz_negative(ret)
        /\ (HasUnknownLetter(format) \/ HasDanglingRepeat(format))
              => sz_negative(ret)
        /\ (~format_null /\ ~buffer_null /\ At(format, c) # NUL)
              => ret = sz_minus_one

C3_Witness ==
    /\ Completed("pack")
    /\ format = <<"a", "b", "c">>
    /\ size = MaxSize
    /\ ret = sz_minus_one

-----------------------------------------------------------------------------
(* C4: capacity threshold.  For a well-formed format of total size S,      *)
(* struct_pack and struct_unpack return a negative value when size < S and *)
(* return S when size >= S; every field that was packed or unpacked lay    *)
(* within the buffer: its offset plus its size, padding included, did not  *)
(* exceed size.                                                            *)

C4_CapacityThreshold ==
    /\ ((\/ Completed("pack") \/ Completed("unpack")) /\ WellFormed(format))
          => /\ size < RefSize(format) => sz_negative(ret)
             /\ size >= RefSize(format) => ret = SZ(RefSize(format))
    /\ op \in {"pack", "unpack"}
          => \A k \in DOMAIN log : log[k].at + sz_int(log[k].field_size) <= size

C4_Witness ==
    /\ Completed("pack")
    /\ format = <<"c", "i">>
    /\ size = RefSize(format)
    /\ ret = SZ(8)
    /\ Len(log) = 2

-----------------------------------------------------------------------------
(* C5: round trip.  For a valid format of the kinds c b B ? h H i I l L q  *)
(* Q with positive repeat counts and x pads, struct_unpack applied to the  *)
(* bytes struct_pack produced stores, in every output slot, the value that *)
(* was passed for it, when that value is in the range of the slot's kind   *)
(* (0 or 1 for a bool).                                                    *)

RoundTripKinds == {"c", "b", "B", "?", "h", "H", "i", "I", "l", "L", "q", "Q"}

RoundTripFormat(fmt) ==
    /\ WellFormed(fmt)
    /\ \A k \in DOMAIN RefFormat(fmt).items :
          /\ RefFormat(fmt).items[k].kind \in RoundTripKinds \cup {"x"}
          /\ RefFormat(fmt).items[k].rep > 0

RECURSIVE Slots(_, _)
\* the kinds of the values the items k.. take, one per value
Slots(items, k) ==
    IF k > Len(items) THEN <<>>
    ELSE (IF items[k].kind = "x" THEN <<>>
          ELSE [e \in 1..items[k].rep |-> items[k].kind])
         \o Slots(items, k + 1)

\* the 64-bit value v is one a slot of the kind can hold
InRange(kind, v) ==
    LET w == RefWidth(kind)
    IN  CASE kind = "?" -> v[1] \in {0, 1} /\ \A k \in 2..8 : v[k] = 0
          [] kind \in {"b", "h", "i", "l", "q"} ->
                \A k \in (w + 1)..8 : v[k] = IF v[w] >= 128 THEN 255 ELSE 0
          [] kind \in {"B", "H", "I", "L", "Q"} ->
                \A k \in (w + 1)..8 : v[k] = 0
          [] kind = "c" ->
                \/ \A k \in 2..8 : v[k] = 0
                \/ v[1] >= 128 /\ \A k \in 2..8 : v[k] = 255

\* struct_unpack has succeeded on the bytes struct_pack produced
RoundTripDone == Completed("unpack") /\ from_pack /\ ~sz_negative(ret)

C5_RoundTrip ==
    (RoundTripDone /\ RoundTripFormat(format)) =>
        /\ Len(outs) = Len(Slots(RefFormat(format).items, 1))
        /\ \A j \in DOMAIN outs :
              /\ outs[j].letter = Slots(RefFormat(format).items, 1)[j]
              /\ InRange(outs[j].letter, ArgAt(args, j).i)
                    => outs[j].v = Low(ArgAt(args, j).i, RefWidth(outs[j].letter))

C5_Witness ==
    /\ RoundTripDone
    /\ format = <<"h", "h", "l">>
    /\ host = BIG_ENDIAN
    /\ args = <<A_short, A_neg, A_zero>>
    /\ \A j \in DOMAIN outs : InRange(outs[j].letter, ArgAt(args, j).i)
    /\ Len(outs) = 3
    /\ outs[1].v = <<0, 128>>

-----------------------------------------------------------------------------
(* C6: native-mode alignment.  With prefix '@' or none, every field of a   *)
(* kind h H i I l L q Q f d starts at an offset that is a multiple of the  *)
(* alignment A of its kind, after exactly (A - offset mod A) mod A padding *)
(* bytes; the kinds s c b B ? x get no padding; with prefix '=', '<', '>'  *)
(* or '!' no field gets padding.  A field takes its padding and its        *)
(* repeat x width bytes, and the next field begins where it ends.          *)

RefAlign(kind) ==
    IF kind \in {"h", "H", "i", "I", "l", "L", "q", "Q", "f", "d"}
    THEN RefWidth(kind) ELSE 1

-----------------------------------------------------------------------------
(* C7: standard-mode layout.  For a well-formed format with prefix '=',    *)
(* '<', '>' or '!' and positive repeat counts, struct_calcsize returns,    *)
(* and a successful struct_pack or struct_unpack returns, the sum over the *)
(* items of repeat x width, the width being 1 for x c b B ? s, 2 for h H,  *)
(* 4 for i I l L f and 8 for q Q d.                                        *)

StandardWidth(kind) ==
    CASE kind \in {"x", "c", "b", "B", "?", "s"} -> 1
      [] kind \in {"h", "H"}                     -> 2
      [] kind \in {"i", "I", "l", "L", "f"}      -> 4
      [] kind \in {"q", "Q", "d"}                -> 8

RECURSIVE StandardSum(_, _)
StandardSum(items, k) ==
    IF k > Len(items) THEN 0
    ELSE items[k].rep * StandardWidth(items[k].kind) + StandardSum(items, k + 1)

StandardFormat(fmt) ==
    /\ HasPrefix(fmt) /\ fmt[1] \in {"=", "<", ">", "!"}
    /\ WellFormed(fmt)
    /\ \A k \in DOMAIN RefFormat(fmt).items : RefFormat(fmt).items[k].rep > 0

C7_StandardLayout ==
    (pc = "done" /\ ~format_null /\ ~buffer_null /\ StandardFormat(format)) =>
        /\ op = "calcsize" => ret = SZ(StandardSum(RefFormat(format).items, 1))
        /\ (op \in {"pack", "unpack"} /\ ~sz_negative(ret))
              => ret = SZ(StandardSum(RefFormat(format).items, 1))

C7_Witness ==
    /\ Completed("pack")
    /\ format = <<"<", "2", "c", "i">>
    /\ ret = SZ(6)

-----------------------------------------------------------------------------
(* C8: endianness independence.  For a format that starts with a prefix    *)
(* character '@', '=', '<', '>' or '!' and any values, the bytes           *)
(* struct_pack produces on a little-endian host and on a big-endian host   *)
(* are the same.                                                           *)

OtherHost(h) == IF h = LITTLE_ENDIAN THEN BIG_ENDIAN ELSE LITTLE_ENDIAN

\* the same call of struct_pack made on the other host
PackElsewhere == struct_pack(OtherHost(host), format, size, Filled(size, "junk"), args)

\* the call on the other host is defined, and leaves the same bytes and
\* returns the same value
SameElsewhere ==
    ~PackElsewhere.fault =>
        /\ buffer = PackElsewhere.buffer
        /\ ret = PackElsewhere.result

C8_EndiannessIndependence ==
    (Completed("pack") /\ HasPrefix(format)) => SameElsewhere

\* C8, for the prefixes that name a byte order: '<', '>' and '!'
C8_FixedOrderIndependence ==
    (Completed("pack") /\ HasPrefix(format) /\ format[1] \in {"<", ">", "!"})
        => SameElsewhere

C8_Witness ==
    /\ Completed("pack")
    /\ format = <<">", "b", "h", "i", "q">>
    /\ host = LITTLE_ENDIAN
    /\ ret = SZ(15)
    /\ ~PackElsewhere.fault
    /\ buffer[1] = 20 /\ buffer[2] = 21

-----------------------------------------------------------------------------
(* C9: byte order of multi-byte integers.  With prefix '<' struct_pack     *)
(* writes every 16-, 32- and 64-bit integer least significant byte first,  *)
(* with prefix '>' or '!' most significant byte first, on either host;     *)
(* struct_unpack with the same prefix reads them in that order; so the     *)
(* bytes of a field packed with '>' are those packed with '<' reversed.    *)

WideIntegerKinds == {"h", "H", "i", "I", "l", "L", "q", "Q"}

\* the index in a field of w bytes of the byte of significance k (0 the
\* least) under the prefix
ByteIndex(prefix, w, k) == IF prefix = "<" THEN k ELSE w - 1 - k

\* the same format with the prefix '<'
AsLittle(fmt) == <<"<">> \o Tail(fmt)

C9_ByteOrder ==
    (op \in {"pack", "unpack"} /\ HasPrefix(format) /\ format[1] \in {"<", ">", "!"}) =>
        \A n \in DOMAIN log :
            LET e    == log[n]
                w    == RefWidth(e.letter)
                base == e.at + e.skip
            IN  e.letter \in WideIntegerKinds =>
                  \A j \in 0..(e.n - 1), k \in 0..(w - 1) :
                     LET stored == buffer[base + j * w + ByteIndex(format[1], w, k)]
                     IN  /\ op = "pack"
                            => stored = ArgAt(args, e.vl0 + j + 1).i[k + 1]
                         /\ op = "unpack"
                            => outs[e.o0 + j + 1].v[k + 1] = stored
                         /\ (Completed("pack") /\ ~sz_negative(ret))
                            => buffer[base + j * w + k]
                                 = struct_pack(host, AsLittle(format), size,
                                               Filled(size, "junk"), args)
                                      .buffer[base + j * w + (w - 1 - k)]
                                   \/ format[1] = "<"

C9_Witness ==
    /\ Completed("unpack")
    /\ from_pack
    /\ format = <<">", "b", "h", "i", "q">>
    /\ host = LITTLE_ENDIAN
    /\ args = <<A_quad, A_half, A_byte>>
    /\ ret = SZ(15)
    /\ buffer[1] = 128 /\ buffer[2] = 1
    /\ outs[2].v = <<1, 128>>
    /\ buffer[14] = 1 /\ buffer[7] = 8

-----------------------------------------------------------------------------
(* C10: zero repeat in struct_pack and struct_unpack.  An item with repeat *)
(* count 0 of a kind other than x writes or reads no value bytes and       *)
(* takes no variadic argument, and advances the offset by exactly the      *)
(* padding that precedes one instance of the kind in native mode (by       *)
(* nothing otherwise), zero-filled by struct_pack.                         *)

\* the iteration just made has handled an item with repeat count 0
ZeroRepeatStep(kinds) ==
    /\ op \in {"pack", "unpack"}
    /\ pc = "loop"
    /\ Len(log') = Len(log) + 1
    /\ log'[Len(log')].n = 0
    /\ log'[Len(log')].letter \in kinds

\* the item took its padding, zero-filled on encode, and no other byte of
\* the buffer was stored to
ZeroRepeatBytes ==
    LET e == log'[Len(log')]
    IN  /\ e.at = sz_int(p)
        /\ e.skip = RefPad(e.letter, e.at, IsNative(format))
        /\ p' = sz_add(p, SZ(e.skip))
        /\ DOMAIN buffer' = DOMAIN buffer
        /\ \A i \in DOMAIN buffer :
              buffer'[i] = IF op = "pack" /\ e.at <= i /\ i < e.at + e.skip
                           THEN 0 ELSE buffer[i]
        /\ oob' = oob

-----------------------------------------------------------------------------
(* C11: zero-repeat re-alignment in struct_calcsize.  struct_calcsize      *)
(* accepts an item with repeat count 0 and moves the offset by the item's  *)
(* alignment padding only, so that struct_calcsize("l0lh") is              *)
(* struct_calcsize("llh").                                                 *)

\* a well-formed format with an item whose repeat count is 0
HasZeroRepeat(fmt) ==
    WellFormed(fmt) /\ \E k \in DOMAIN RefFormat(fmt).items :
                          RefFormat(fmt).items[k].rep = 0

\* C11: struct_calcsize of a well-formed format with a 0<kind> item is the
\* non-negative size of its layout, the 0<kind> item counting for its
\* alignment padding alone; for "l0lh" that is struct_calcsize("llh")
C11_ZeroRepeatCalcsize ==
    Returned("calcsize") /\ ~format_null /\ HasZeroRepeat(format)
        => /\ ~sz_negative(ret)
           /\ ret = SZ(RefSize(format))
           /\ format = <<"l", "0", "l", "h">>
                 => ret = struct_calcsize(host, <<"l", "l", "h">>)

-----------------------------------------------------------------------------
(* C12: encoding of s.  For an item Ns whose source pointer is not NULL,   *)
(* struct_pack copies exactly N bytes of the source into the output, with  *)
(* no byte value treated as a sentinel: output byte k of the field is      *)
(* source byte k for every k < N.                                          *)

\* C12: after a successful struct_pack, every field Ns packed from a source
\* of at least N bytes holds the first N source bytes unchanged, whatever
\* their values (0x00 and 0x30 included)
C12_StrEncoding ==
    Completed("pack") /\ ~sz_negative(ret)
        => \A e \in DOMAIN log :
              LET src == ArgAt(args, log[e].vl0 + 1)
              IN  log[e].letter = "s" /\ ~src.snull /\ log[e].n <= Len(src.s)
                     => \A k \in 0..(log[e].n - 1) :
                           buffer[log[e].at + log[e].skip + k] = src.s[k + 1]

\* C12 for sources without the character '0' (0x30): the copy is verbatim,
\* a NUL byte of the source included
C12_StrEncodingWithoutDigitZero ==
    Completed("pack") /\ ~sz_negative(ret)
        => \A e \in DOMAIN log :
              LET src == ArgAt(args, log[e].vl0 + 1)
              IN  (/\ log[e].letter = "s" /\ ~src.snull /\ log[e].n <= Len(src.s)
                   /\ \A k \in 1..log[e].n : src.s[k] # CharZero)
                     => \A k \in 0..(log[e].n - 1) :
                           buffer[log[e].at + log[e].skip + k] = src.s[k + 1]

-----------------------------------------------------------------------------
(* C13: NUL termination on decode of s.  For an item Ns and a destination  *)
(* of capacity C >= 1, after struct_unpack the destination holds a NUL     *)
(* byte at index min(N, C - 1), for every N and C.                         *)

\* the smaller of two numbers
Min(a, b) == IF a < b THEN a ELSE b

\* the destination of the field Ns that log entry e of struct_unpack records
StrDest(e) == outs[log[e].o0 + 1].v

\* C13: after a successful struct_unpack, the destination of every field Ns
\* decoded with capacity C holds 0 at index min(N, C - 1)
C13_StrTermination ==
    Completed("unpack") /\ ~sz_negative(ret)
        => \A e \in DOMAIN log :
              log[e].letter = "s"
                 => StrDest(e)[Min(log[e].n, log[e].cap - 1)] = 0

\* what the code guarantees instead: the terminator is stored at index
\* C - 1, the last byte of the destination, for every N
C13_StrLastByte ==
    Completed("unpack") /\ ~sz_negative(ret)
        => \A e \in DOMAIN log :
              log[e].letter = "s" => StrDest(e)[log[e].cap - 1] = 0

-----------------------------------------------------------------------------
(* C14: verbatim copy on decode of s.  struct_unpack copies the first      *)
(* min(N, C - 1) input bytes of the field to the destination unchanged;    *)
(* a NUL byte inside the field does not alter the bytes copied after it.   *)

\* C14: after a successful struct_unpack, byte k of the destination of
\* every field Ns is byte k of the field in the buffer, for k < min(N, C - 1)
C14_StrVerbatim ==
    Completed("unpack") /\ ~sz_negative(ret)
        => \A e \in DOMAIN log :
              log[e].letter = "s"
                 => \A k \in 0..(Min(log[e].n, log[e].cap - 1) - 1) :
                       StrDest(e)[k] = buffer[log[e].at + log[e].skip + k]

\* C14 up to the first NUL byte of the field: the bytes before it are
\* copied unchanged, the bytes from it on are stored as 0
C14_StrVerbatimUpToNul ==
    Completed("unpack") /\ ~sz_negative(ret)
        => \A e \in DOMAIN log :
              log[e].letter = "s"
                 => \A k \in 0..(Min(log[e].n, log[e].cap - 1) - 1) :
                       StrDest(e)[k] =
                          IF \E j \in 0..k : buffer[log[e].at + log[e].skip + j] = 0
                          THEN 0
                          ELSE buffer[log[e].at + log[e].skip + k]

-----------------------------------------------------------------------------
(* C15: prefix position.  A mode character is accepted as the prefix when  *)
(* it is the first non-whitespace character of the format (" <h" selects   *)
(* little-endian standard mode); any later occurrence of a mode character  *)
(* makes struct_pack, struct_unpack and struct_calcsize return a negative  *)
(* value.                                                                  *)

\* the format without its leading white space
Stripped(fmt) == SubSeq(fmt, SkipSpace(fmt, 1), Len(fmt))

\* a mode character after the first non-whitespace character
HasLaterMode(fmt) ==
    \E i \in (SkipSpace(fmt, 1) + 1)..Len(fmt) : fmt[i] \in PrefixChars

\* a call of any of the three functions, with both pointers given and, for
\* struct_pack and struct_unpack, a buffer of at least n bytes, has returned
Served(n) ==
    /\ pc = "done" /\ ~format_null
    /\ op \in {"pack", "unpack"} => ~buffer_null /\ size >= n

\* C15: a format whose first non-whitespace character is a mode character
\* is served as that format without the white space before the prefix, and
\* a format with a mode character anywhere later gets a negative value
C15_PrefixPosition ==
    /\ LET fmt == Stripped(format)
       IN  (/\ SkipSpace(format, 1) > 1
            /\ HasPrefix(fmt) /\ WellFormed(fmt) /\ ~HasZeroRepeat(fmt)
            /\ Served(RefSize(fmt)))
              => ret = SZ(RefSize(fmt))
    /\ pc = "done" /\ ~format_null /\ HasLaterMode(format) => sz_negative(ret)

\* the second half of C15 alone, for the code's prefix position (the first
\* character of the format): a mode character at any later position gets a
\* negative value
C15_LaterModeRejected ==
    (/\ pc = "done" /\ ~format_null
     /\ \E i \in 2..Len(format) : format[i] \in PrefixChars)
       => sz_negative(ret)

-----------------------------------------------------------------------------
(* C16: format acceptance.  Given enough buffer, struct_pack,              *)
(* struct_unpack and struct_calcsize accept a format exactly when it is    *)
(* prefix? (whitespace* digit* kind)* up to the end of the string, and     *)
(* return a negative value otherwise; white space before an item does not  *)
(* change the result; anything after the last item, trailing white space   *)
(* included, and white space between a repeat count and its kind letter    *)
(* are errors.                                                             *)

\* the buffer size a format asks for
Needed(fmt) == IF WellFormed(fmt) THEN RefSize(fmt) ELSE 0

\* C16: a call given enough buffer returns the size of the layout when its
\* format matches the grammar (white space before items counting for
\* nothing) and a negative value when it does not
C16_FormatAcceptance ==
    Served(Needed(format))
        => IF WellFormed(format)
           THEN ret = SZ(RefSize(format))
           ELSE sz_negative(ret)

\* C16 without the formats struct_calcsize gives up on: those with an item
\* of repeat count 0
C16_AcceptanceButZeroRepeat ==
    Served(Needed(format)) /\ ~(op = "calcsize" /\ HasZeroRepeat(format))
        => IF WellFormed(format)
           THEN ret = SZ(RefSize(format))
           ELSE sz_negative(ret)

-----------------------------------------------------------------------------
(* C17: failure frame of struct_pack.  When struct_pack returns a negative *)
(* value, every byte of the buffer at an index at or beyond the offset     *)
(* reached, the sum of the sizes of the fields packed before the failing   *)
(* item, is what it was before the call; the failing item writes nothing.  *)

\* the sum of the sizes of the fields struct_pack has packed
PackedSize == IF log = <<>> THEN 0
              ELSE log[Len(log)].at + sz_int(log[Len(log)].field_size)

\* C17: after a struct_pack that returned a negative value, p stands at the
\* end of the fields packed and every buffer byte from there on still holds
\* the value the caller's buffer had on entry
C17_FailureFrame ==
    Returned("pack") /\ ~buffer_null /\ sz_negative(ret)
        => /\ sz_int(p) = PackedSize
           /\ \A i \in DOMAIN buffer :
                 i >= PackedSize => buffer[i] = FillByte("junk", i)

\* "hhl" into 6 bytes: both h are packed, l does not fit and bytes 4 and 5
\* are the caller's
C17_Witness ==
    /\ Completed("pack")
    /\ host = LITTLE_ENDIAN
    /\ format = <<"h", "h", "l">>
    /\ size = 6
    /\ ret = sz_minus_one
    /\ Len(log) = 2 /\ p = SZ(4)
    /\ buffer[0] = 1 /\ buffer[2] = Low(args[2].i, 2)[1]
    /\ buffer[4] = FillByte("junk", 4) /\ buffer[5] = FillByte("junk", 5)

-----------------------------------------------------------------------------
(* C18: zero fill.  After a successful struct_pack every output byte in    *)
(* [0, returned size) that belongs to no field value is 0: an item x       *)
(* writes repeat zero bytes and consumes no argument, and every native     *)
(* alignment gap is zero-filled whatever the buffer held; struct_unpack    *)
(* skips those bytes without storing anything.                             *)

\* the offset after the field that log entry e records
FieldEnd(e) == log[e].at + log[e].skip + log[e].n * RefWidth(log[e].letter)

\* the number of values stored up to and including log entry e
StoredUpTo(e) == IF e < Len(log) THEN log[e + 1].o0 ELSE Len(outs)

\* C18: after a successful struct_pack or struct_unpack the fields lie end
\* to end from offset 0 to the returned size, each behind the padding its
\* kind needs at its offset.  In the output of struct_pack all bytes of a
\* gap and of an item x are 0, and an x consumes no argument; struct_unpack
\* consumes no pointer and stores no value for an x, and stores exactly
\* repeat values for any other item but s, none of them for the gap
C18_ZeroFill ==
    pc = "done" /\ op \in {"pack", "unpack"} /\ ~format_null /\ ~buffer_null
                /\ ~sz_negative(ret)
        => /\ ret = SZ(IF log = <<>> THEN 0 ELSE FieldEnd(Len(log)))
           /\ \A e \in DOMAIN log :
                 /\ log[e].at = IF e = 1 THEN 0 ELSE FieldEnd(e - 1)
                 /\ log[e].skip = RefPad(log[e].letter, log[e].at, IsNative(format))
                 /\ op = "pack"
                       => /\ \A k \in 0..(log[e].skip - 1) : buffer[log[e].at + k] = 0
                          /\ log[e].letter = "x"
                                => /\ \A k \in 0..(log[e].n - 1) :
                                         buffer[log[e].at + k] = 0
                                   /\ log[e].vl1 = log[e].vl0
                 /\ op = "unpack"
                       => /\ log[e].letter = "x"
                                => /\ log[e].vl1 = log[e].vl0
                                   /\ StoredUpTo(e) = log[e].o0
                          /\ log[e].letter \notin {"x", "s"}
                                => /\ log[e].vl1 = log[e].vl0 + log[e].n
                                   /\ StoredUpTo(e) = log[e].o0 + log[e].n

\* "xi" in native mode into a buffer of non-zero bytes: the x and the three
\* bytes of the gap before the int are 0, the int took the first argument
C18_Witness ==
    /\ Completed("pack")
    /\ host = LITTLE_ENDIAN
    /\ format = <<"x", "i">>
    /\ ret = SZ(8)
    /\ Len(log) = 2 /\ log[2].at = 1 /\ log[2].skip = 3
    /\ \A k \in 0..3 : buffer[k] = 0 /\ FillByte("junk", k) # 0
    /\ buffer[4] = 1
    /\ vl = 1

-----------------------------------------------------------------------------
(* C19: bool normalisation.  For an item '?', struct_pack writes the byte  *)
(* 0 for an argument equal to 0 and the byte 1 for every non-zero          *)
(* argument; struct_unpack stores 0 for an input byte 0 and 1 for every    *)
(* non-zero input byte; no other value is ever written or stored.          *)

\* the int argument number k (from 0) of the field that log entry e records
BoolArg(e, k) == Low(ArgAt(args, log[e].vl0 + k + 1).i, 4)

\* C19: every byte struct_pack has written for a '?' is 0 when the int
\* argument is 0 and 1 otherwise, and every value struct_unpack has stored
\* for a '?' is 0 when the input byte is 0 and 1 otherwise
C19_BoolNormalisation ==
    \A e \in DOMAIN log :
       log[e].letter = "?"
          => \A k \in 0..(log[e].n - 1) :
                /\ op = "pack"
                      => buffer[log[e].at + k] =
                            IF BoolArg(e, k) = <<0, 0, 0, 0>> THEN 0 ELSE 1
                /\ op = "unpack"
                      => outs[log[e].o0 + k + 1].v =
                            <<IF buffer[log[e].at + k] = 0 THEN 0 ELSE 1>>

\* "2?" packed from -32768 (low byte 0) and -1 (low byte 255): both bytes
\* are 1
C19_Witness ==
    /\ Completed("pack")
    /\ format = <<"2", "?">>
    /\ ret = SZ(2)
    /\ Len(log) = 1
    /\ BoolArg(1, 0) = <<0, 128, 255, 255>>
    /\ BoolArg(1, 1) = <<255, 255, 255, 255>>
    /\ buffer[0] = 1 /\ buffer[1] = 1

-----------------------------------------------------------------------------
(* C20: destination bounds on decode of s.  For an item Ns and a           *)
(* destination of capacity C >= 1, struct_unpack writes only destination   *)
(* indices in [0, C - 1], for every N, and reports N input bytes consumed  *)
(* whatever C is.                                                          *)

\* C20: every field Ns struct_unpack has decoded with capacity C stored to
\* no destination index outside 0..C-1, took the pointer and the capacity
\* from the arguments, and moved the input position by N
C20_StrDestinationBounds ==
    op = "unpack"
        => \A e \in DOMAIN log :
              log[e].letter = "s"
                 => /\ log[e].cap >= 1
                    /\ DOMAIN StrDest(e) \subseteq 0..(log[e].cap - 1)
                    /\ log[e].field_size = SZ(log[e].n)
                    /\ log[e].vl1 = log[e].vl0 + 2
                    /\ log[e].at + log[e].n
                          = IF e < Len(log) THEN log[e + 1].at ELSE sz_int(p)

\* "2s" decoded into a destination of one byte: the byte is the terminator
\* and two input bytes are consumed
C20_Witness ==
    /\ Completed("unpack")
    /\ format = <<"2", "s">>
    /\ Len(log) = 1 /\ log[1].cap = 1 /\ log[1].n = 2
    /\ DOMAIN outs[1].v = {0} /\ outs[1].v[0] = 0
    /\ buffer[0] # 0
    /\ ret = SZ(2)

-----------------------------------------------------------------------------
(* C21: single pass and termination.  Every call of struct_pack,           *)
(* struct_unpack and struct_calcsize terminates; each loop iteration       *)
(* either stops the loop or moves the format cursor forward by at least    *)
(* one character, the cursor never moves backwards or past the terminating *)
(* NUL, and the byte offset (context.offset, equal to p - buffer in        *)
(* struct_pack and struct_unpack and to result in struct_calcsize) never   *)
(* decreases between iterations.                                           *)

RECURSIVE sz_ule_from(_, _, _)
\* a <= b on the limbs k..1, the higher limbs being equal
sz_ule_from(a, b, k) ==
    IF k = 0 THEN TRUE
    ELSE IF a[k] # b[k] THEN a[k] < b[k]
    ELSE sz_ule_from(a, b, k - 1)

\* a <= b as size_t
sz_ule(a, b) == sz_ule_from(a, b, 4)

\* one iteration of the loop of any of the three functions
Iteration == pc = "loop" /\ pc' # "done"

\* the cursor part of C21: an iteration that does not leave the loop moves
\* c forward, and no iteration moves it backwards or beyond the NUL
CursorForward ==
    /\ pc' = "loop" => c' > c
    /\ c' >= c
    /\ c' <= Len(format) + 1

\* the offset part of C21: context.offset does not decrease, and it is
\* p - buffer, or result in struct_calcsize
OffsetForward ==
    /\ sz_ule(context.offset, context'.offset)
    /\ context'.offset = IF op = "calcsize" THEN result' ELSE p'

\* C21: every iteration stops the loop or moves the cursor forward, keeps
\* the cursor at or before the terminating NUL, and does not decrease the
\* byte offset; the distance of the cursor to the NUL then bounds the
\* number of iterations of a call
C21_SinglePass ==
    [][Iteration => CursorForward /\ OffsetForward]_vars

\* C21 without the offset: the cursor only moves forward and stays within
\* the format, whatever the repeat counts
C21_CursorSinglePass ==
    [][Iteration => CursorForward]_vars

\* a call is in its loop or between the loop and its return
InCall == pc \in {"loop", "break"}

\* an iteration, or the return after the loop
CallStep == InCall /\ Next

\* a call that is under way is not suspended for ever.  CallStep is enabled
\* exactly when InCall holds (in the loop an iteration or, at the NUL, the
\* return can be taken; after a break the return), so this is weak
\* fairness of CallStep, written without ENABLED
CallFairness == []<>(~InCall) \/ []<><<CallStep>>_vars

SpecFair == Spec /\ CallFairness

SpecWideFair == SpecWide /\ CallFairness

\* the termination part of C21: a call that has entered its loop returns,
\* or is ended by the fault of an access outside the buffer
C21_Termination ==
    InCall ~> pc \in {"done", "fault"}

====
